---- MODULE Spec2Model ----
(***************************************************************************)
(* Model of src/distributor.py: the mod distributor.                       *)
(*                                                                         *)
(*   Spec           the program: Project() then run_tasks(), started       *)
(*                  again after it exited.                                 *)
(*   SpecCompare    ServerUpdateTask.mod_comparison called directly on     *)
(*                  two name lists (the remote list is a mutable object).  *)
(*   SpecSync       ServerUpdateTask.run against a remote mod directory.   *)
(*   SpecWarehouse  verify_warehouse, repair_warehouse and create_warehouse *)
(*                  called one after the other on any warehouse tree.      *)
(*   SpecRace       one such call while another process changes the tree   *)
(*                  between two system calls of the program.               *)
(***************************************************************************)
EXTENDS Integers, Sequences, FiniteSets, TLC

\* ------------------------------------------------------------------------
\* Bounds
\* ------------------------------------------------------------------------
MaxCalls == 2        \* direct calls made by a driver
MaxRuns == 2         \* invocations of the task / of the program
MaxWhCalls == 3      \* direct calls of the warehouse functions
MaxEnv == 1          \* changes made by another process

\* Mod file names found in ./mod_warehouse/mods/server and in ./mods
Names == {"a.jar", "b.jar", "c.jar"}

VARIABLES
    pc,            \* position of the program
    exc,           \* exception that ended the current call, or "none"
    runs,          \* invocations started so far
    local_mods,    \* list passed as local_mods to mod_comparison
    server_mods,   \* list object passed as server_mods to mod_comparison
    plans,         \* driver: one record per finished mod_comparison call
    localDir,      \* names in ./mod_warehouse/mods/server
    remoteDir,     \* names in ./mods on the server
    remoteDir0,    \* remoteDir when the current run listed it
    to_upload,     \* ServerUpdateTask.run: plan still to apply
    to_delete,
    oplog,         \* transport calls of the current run, in order
    lastRun,       \* how the previous run of the sync ended
    fs,            \* kind of the entry at each warehouse path
    fn,            \* warehouse function being executed, or "none"
    caller,        \* who called it
    result,        \* its return value
    found,         \* names seen by its scans (has* flags / foundFolders)
    pending,       \* listed subdirectories not yet scanned
    mkIdx,         \* next directory creation to attempt
    fs0,           \* fs when the current call started
    calls,         \* driver: one record per finished call
    envLog,        \* changes made by another process, in order
    config,        \* ./distribution-config.toml: present or not, its lines
    entries,       \* verify_project: listed entries still to visit
    hasConfig,     \* verify_project's locals
    hasWarehouse,
    isFine,
    repairs,       \* what verify_project has rewritten or created this run
    start,         \* the working directory when the run started
    exitCode       \* exit status of the process, -1 while it runs

cmpVars == <<local_mods, server_mods, plans>>
syncVars == <<localDir, remoteDir, remoteDir0, to_upload, to_delete, oplog,
              lastRun>>
whVars == <<fs, fn, caller, result, found, pending, mkIdx, fs0, calls, envLog>>

projVars == <<config, entries, hasConfig, hasWarehouse, isFine, repairs,
              start, exitCode>>

vars == <<pc, exc, runs, cmpVars, syncVars, whVars, projVars>>

\* ------------------------------------------------------------------------
\* The warehouse tree
\* ------------------------------------------------------------------------
Warehouse == "mod_warehouse"
TopDirs == {"mods", "archives"}
LeafDirs == {"mods/server", "mods/client", "archives/essentials",
             "archives/client"}
SchemaPaths == {Warehouse} \cup TopDirs \cup LeafDirs

\* an entry the schema does not name (the "unexpected item" of line 220)
ExtraPaths == {"mods/other"}
Paths == SchemaPaths \cup ExtraPaths

Kinds == {"absent", "dir", "file"}

Parent(p) ==
    IF p \in {"mods/server", "mods/client", "mods/other"} THEN "mods"
    ELSE IF p \in {"archives/essentials", "archives/client"} THEN "archives"
    ELSE IF p \in TopDirs THEN Warehouse
    ELSE "."

Children(p) == {q \in Paths : Parent(q) = p}

RECURSIVE Under(_, _)
Under(q, p) == q # "." /\ (q = p \/ Under(Parent(q), p))

\* an entry exists only inside a directory
WellFormed(f) ==
    \A p \in Paths \ {Warehouse} : f[p] # "absent" => f[Parent(p)] = "dir"

Trees == {f \in [Paths -> Kinds] : WellFormed(f)}

NoWarehouseCall ==
    /\ fn = "none" /\ caller = "none" /\ result = "none"
    /\ found = {} /\ pending = {} /\ mkIdx = 0

WhIdle ==
    /\ fs = [p \in Paths |-> "dir"] /\ fs0 = fs
    /\ NoWarehouseCall /\ calls = <<>> /\ envLog = <<>>

\* ------------------------------------------------------------------------
\* File-system calls on the warehouse tree
\* ------------------------------------------------------------------------
\* scandir(p): the error it raises, "none" when p is a directory
ScandirError(f, p) ==
    IF f[p] = "absent" THEN "FileNotFoundError"
    ELSE IF f[p] = "file" THEN "NotADirectoryError"
    ELSE "none"

\* names listed by scandir(p) among the schema names, whatever their kind
Listed(f, p) == {q \in Children(p) \cap SchemaPaths : f[q] # "absent"}

\* a mkdir that replaces whatever is in its way
MkdirReplace(f, p) ==
    IF p # Warehouse /\ f[Parent(p)] # "dir"
    THEN [fs |-> f, err |-> "FileNotFoundError"]
    ELSE [fs |-> [q \in Paths |-> IF q = p THEN "dir"
                                  ELSE IF Under(q, p) THEN "absent"
                                  ELSE f[q]],
          err |-> "none"]

\* os.mkdir(p)
Mkdir(f, p) ==
    IF p # Warehouse /\ f[Parent(p)] = "absent"
    THEN [fs |-> f, err |-> "FileNotFoundError"]
    ELSE IF p # Warehouse /\ f[Parent(p)] = "file"
    THEN [fs |-> f, err |-> "NotADirectoryError"]
    ELSE IF f[p] # "absent"
    THEN [fs |-> f, err |-> "FileExistsError"]
    ELSE [fs |-> [f EXCEPT ![p] = "dir"], err |-> "none"]

\* os.makedirs(p): missing parents are created first, the leaf with mkdir
RECURSIVE Makedirs(_, _)
Makedirs(f, p) ==
    IF p # Warehouse /\ f[Parent(p)] = "absent"
    THEN LET r == Makedirs(f, Parent(p))
         IN IF r.err \in {"none", "FileExistsError"}
            THEN Mkdir(r.fs, p) ELSE r
    ELSE Mkdir(f, p)

\* rm -r p, by another process
RemoveTree(f, p) == [q \in Paths |-> IF Under(q, p) THEN "absent" ELSE f[q]]

\* ------------------------------------------------------------------------
\* distribution-config.toml
\* ------------------------------------------------------------------------
\* A file is a sequence of lines.  A line is a table header "[name]", a
\* pair "key=value" or something else; the value of a pair is "none"
\* (nothing after the sign), "empty" (the string "") or "text".
TableLine(n) == [kind |-> "table", key |-> n, val |-> "none"]
PairLine(k, v) == [kind |-> "pair", key |-> k, val |-> v]
JunkLine == [kind |-> "junk", key |-> "", val |-> "none"]

FtpKeys == {"host", "user", "password", "port"}

\* lines 348-352: the text create_config writes
GeneratedConfig ==
    <<TableLine("FTP"), PairLine("host", "none"), PairLine("user", "none"),
      PairLine("password", "none"), PairLine("port", "none")>>

CompleteConfig ==
    <<TableLine("FTP"), PairLine("host", "text"), PairLine("user", "text"),
      PairLine("password", "text"), PairLine("port", "text")>>

\* files the working directory may hold
ConfigFiles ==
    { GeneratedConfig,
      CompleteConfig,
      <<TableLine("FTP"), PairLine("host", "empty"), PairLine("user", "empty"),
        PairLine("password", "empty"), PairLine("port", "empty")>>,
      <<TableLine("FTP"), PairLine("host", "text"), PairLine("user", "text"),
        PairLine("password", "text")>>,
      <<PairLine("server-mods-version", "text"),
        PairLine("client-mods-version", "text")>>,
      <<JunkLine>>,
      <<>> }

NoConfig == [exists |-> FALSE, lines |-> <<>>]
ConfigStates == {NoConfig} \cup {[exists |-> TRUE, lines |-> c] : c \in ConfigFiles}

\* toml.load: err for a line that is no table header and no pair, for a
\* pair without a value, and for a table or key given twice
RECURSIVE toml_load(_, _)
toml_load(lines, acc) ==
    IF acc.err \/ lines = <<>> THEN acc
    ELSE LET l == Head(lines)
             failed == [acc EXCEPT !.err = TRUE]
         IN IF l.kind = "junk" THEN failed
            ELSE IF l.kind = "table"
            THEN IF l.key \in acc.tables THEN failed
                 ELSE toml_load(Tail(lines),
                                [acc EXCEPT !.cur = l.key,
                                            !.tables = @ \cup {l.key}])
            ELSE IF l.val = "none" THEN failed
            ELSE IF \E e \in acc.pairs : e.table = acc.cur /\ e.key = l.key
            THEN failed
            ELSE toml_load(Tail(lines),
                           [acc EXCEPT !.pairs = @ \cup
                               {[table |-> acc.cur, key |-> l.key, val |-> l.val]}])

load(lines) ==
    toml_load(lines, [err |-> FALSE, cur |-> "", tables |-> {}, pairs |-> {}])

\* configuration["FTP"]: the keys of the FTP table
FtpTable(doc) == {e.key : e \in {x \in doc.pairs : x.table = "FTP"}}

\* lines 304-336
verify_config_file(lines) ==
    LET configuration == load(lines)
    IN IF configuration.err THEN FALSE
       ELSE IF "FTP" \notin configuration.tables THEN FALSE
       ELSE \A k \in FtpKeys : k \in FtpTable(configuration)

\* lines 344-353 (and repair_config_file, lines 338-342, which calls it)
create_config == [exists |-> TRUE, lines |-> GeneratedConfig]

NoProjectRun ==
    /\ entries = <<>>
    /\ hasConfig = FALSE /\ hasWarehouse = FALSE /\ isFine = TRUE
    /\ repairs = {}
    /\ exitCode = -1

ProjIdle ==
    /\ config = [exists |-> TRUE, lines |-> CompleteConfig]
    /\ start = [fs |-> fs, config |-> config]
    /\ NoProjectRun

\* ------------------------------------------------------------------------
\* Lists of names
\* ------------------------------------------------------------------------
Range(s) == {s[i] : i \in 1..Len(s)}

\* A directory listing: every name once, in any order.
Listings(S) ==
    {s \in [1..Cardinality(S) -> S] : Range(s) = S}

NameLists == UNION {Listings(S) : S \in SUBSET Names}

\* list.remove(x): drop the first occurrence of x
RECURSIVE list_remove(_, _)
list_remove(s, x) ==
    IF s = <<>> THEN <<>>
    ELSE IF Head(s) = x THEN Tail(s)
    ELSE <<Head(s)>> \o list_remove(Tail(s), x)

ListKeepAll(s, x) == s

\* line 97: server_mods.remove(local_mod)
ServerModsRemove(s, x) == list_remove(s, x)

\* lines 92-102: the outer loop over local_mods; srv is the list object
\* server_mods in its current state, up the to_upload list built so far.
\* a loop that never finds a local mod on the server
comparison_upload_all(loc, srv, up) ==
    [to_upload |-> up \o loc, server_mods |-> srv]

RECURSIVE comparison_loop(_, _, _)
comparison_loop(loc, srv, up) ==
    IF loc = <<>> THEN [to_upload |-> up, server_mods |-> srv]
    ELSE LET local_mod == Head(loc)
             isOnServer == \E i \in 1..Len(srv) : srv[i] = local_mod
         IN IF isOnServer
            THEN comparison_loop(Tail(loc), ServerModsRemove(srv, local_mod), up)
            ELSE comparison_loop(Tail(loc), srv, Append(up, local_mod))

\* lines 89-107.  to_delete is the very list object server_mods (line 103),
\* so the field server_mods is the state the caller's list is left in.
mod_comparison_swapped(loc, srv) ==
    LET r == comparison_loop(loc, srv, <<>>)
    IN [to_upload |-> r.server_mods,
        to_delete |-> r.to_upload,
        server_mods |-> r.server_mods]

mod_comparison(loc, srv) ==
    LET r == comparison_loop(loc, srv, <<>>)
    IN [to_upload |-> r.to_upload,
        to_delete |-> r.server_mods,
        server_mods |-> r.server_mods]

\* ------------------------------------------------------------------------
\* SpecCompare: mod_comparison called directly, the same two list objects
\* being passed on every call.
\* ------------------------------------------------------------------------
NoLastRun == [planned |-> FALSE, applied |-> 0, left_up |-> {}, left_del |-> {}]

\* the record kept of a run when the next one starts: whether a transport
\* failure ended it after its plan was computed, how many actions it had
\* applied, and the actions of its plan it had not applied
RunRecord ==
    [planned |-> exc = "TransportFailure"
                    /\ (oplog # <<>> \/ to_upload # <<>> \/ to_delete # <<>>),
     applied |-> Len(oplog),
     left_up |-> {to_upload[i] : i \in 1..Len(to_upload)},
     left_del |-> {to_delete[i] : i \in 1..Len(to_delete)}]

SyncIdle ==
    /\ localDir = {} /\ remoteDir = {} /\ remoteDir0 = {}
    /\ to_upload = <<>> /\ to_delete = <<>> /\ oplog = <<>>
    /\ lastRun = NoLastRun

InitCompare ==
    /\ pc = "compare_driver"
    /\ exc = "none"
    /\ runs = 0
    /\ local_mods \in NameLists
    /\ server_mods \in NameLists
    /\ plans = <<>>
    /\ SyncIdle
    /\ WhIdle
    /\ ProjIdle

CallModComparison ==
    /\ pc = "compare_driver"
    /\ Len(plans) < MaxCalls
    /\ LET r == mod_comparison(local_mods, server_mods)
       IN /\ plans' = Append(plans, [local_in |-> local_mods,
                                     server_in |-> server_mods,
                                     to_upload |-> r.to_upload,
                                     to_delete |-> r.to_delete])
          /\ server_mods' = r.server_mods
    /\ UNCHANGED <<pc, exc, runs, local_mods, syncVars, whVars,
                   projVars>>

NextCompare == CallModComparison

SpecCompare == InitCompare /\ [][NextCompare]_vars

\* ------------------------------------------------------------------------
\* ServerUpdateTask.run (lines 62-87), one step per transport call
\* ------------------------------------------------------------------------
DriverIdle == local_mods = <<>> /\ server_mods = <<>> /\ plans = <<>>

\* lines 75-82: the removal loop runs to its end before the upload loop
RunStepPutFirst(td, tu) ==
    IF tu # <<>> THEN "put" ELSE IF td # <<>> THEN "remove" ELSE "close"

RunStep(td, tu) ==
    IF td # <<>> THEN "remove" ELSE IF tu # <<>> THEN "put" ELSE "close"

\* an exception leaves the function
Raise(e) ==
    /\ pc' = "raised"
    /\ exc' = e

\* lines 66-71: connect and open the SFTP session
SyncConnect ==
    /\ pc = "run_connect"
    /\ pc' = "run_compare"
    /\ UNCHANGED <<exc, runs, local_mods, server_mods, plans, localDir, lastRun,
                   remoteDir, remoteDir0, to_upload, to_delete, oplog, whVars,
                   projVars>>

\* lines 72-74: list both sides (in whatever order the listings come) and
\* compute the plan
SyncCompare ==
    /\ pc = "run_compare"
    /\ IF ScandirError(fs, "mods/server") # "none"
       THEN /\ Raise(ScandirError(fs, "mods/server"))
            /\ UNCHANGED <<to_upload, to_delete, remoteDir0>>
       ELSE /\ \E loc \in Listings(localDir), srv \in Listings(remoteDir) :
                  LET r == mod_comparison(loc, srv)
                  IN /\ to_upload' = r.to_upload
                     /\ to_delete' = r.to_delete
            /\ remoteDir0' = remoteDir
            /\ pc' = "run_apply"
            /\ UNCHANGED exc
    /\ UNCHANGED <<runs, local_mods, server_mods, plans, localDir, lastRun,
                   remoteDir, oplog, whVars,
                   projVars>>

\* lines 76-78: server.remove of the next to_delete entry
SyncRemove ==
    /\ pc = "run_apply"
    /\ RunStep(to_delete, to_upload) = "remove"
    /\ remoteDir' = remoteDir \ {Head(to_delete)}
    /\ oplog' = Append(oplog, [op |-> "remove", mod |-> Head(to_delete)])
    /\ to_delete' = Tail(to_delete)
    /\ UNCHANGED <<pc, exc, runs, local_mods, server_mods, plans, localDir, lastRun,
                   remoteDir0, to_upload, whVars,
                   projVars>>

\* lines 80-82: server.put of the next to_upload entry
SyncPut ==
    /\ pc = "run_apply"
    /\ RunStep(to_delete, to_upload) = "put"
    /\ remoteDir' = remoteDir \cup {Head(to_upload)}
    /\ oplog' = Append(oplog, [op |-> "put", mod |-> Head(to_upload)])
    /\ to_upload' = Tail(to_upload)
    /\ UNCHANGED <<pc, exc, runs, local_mods, server_mods, plans, localDir, lastRun,
                   remoteDir0, to_delete, whVars,
                   projVars>>

\* line 84: both loops are over
SyncClose ==
    /\ pc = "run_apply"
    /\ RunStep(to_delete, to_upload) = "close"
    /\ pc' = "synced"
    /\ UNCHANGED <<exc, runs, local_mods, server_mods, plans, localDir, lastRun,
                   remoteDir, remoteDir0, to_upload, to_delete, oplog, whVars,
                   projVars>>

\* lines 86-87: any transport call (connect, listdir, remove, put) may
\* raise; the exception is re-raised and ends the run.
TransportFailure ==
    /\ \/ pc \in {"run_connect", "run_compare"}
       \/ pc = "run_apply" /\ RunStep(to_delete, to_upload) # "close"
    /\ pc' = "sync_failed"
    /\ exc' = "TransportFailure"
    /\ UNCHANGED <<runs, local_mods, server_mods, plans, localDir, lastRun,
                   remoteDir, remoteDir0, to_upload, to_delete, oplog, whVars,
                   projVars>>

\* ------------------------------------------------------------------------
\* SpecSync: the task run on its own, and run again after it ended
\* ------------------------------------------------------------------------
InitSync ==
    /\ pc = "run_connect"
    /\ exc = "none"
    /\ runs = 1
    /\ DriverIdle
    /\ localDir \in SUBSET Names
    /\ remoteDir \in SUBSET Names
    /\ remoteDir0 = {}
    /\ to_upload = <<>> /\ to_delete = <<>> /\ oplog = <<>>
    /\ lastRun = NoLastRun
    /\ WhIdle
    /\ ProjIdle

SyncRerun ==
    /\ pc \in {"synced", "sync_failed"}
    /\ runs < MaxRuns
    /\ runs' = runs + 1
    /\ pc' = "run_connect"
    /\ exc' = "none"
    /\ to_upload' = <<>> /\ to_delete' = <<>> /\ oplog' = <<>>
    /\ remoteDir0' = {}
    /\ lastRun' = RunRecord
    /\ UNCHANGED <<local_mods, server_mods, plans, localDir, remoteDir, whVars,
                   projVars>>

NextSync ==
    \/ SyncConnect
    \/ SyncCompare
    \/ SyncRemove
    \/ SyncPut
    \/ SyncClose
    \/ TransportFailure
    \/ SyncRerun

SpecSync == InitSync /\ [][NextSync]_vars

\* ------------------------------------------------------------------------
\* Project.verify_warehouse (lines 199-250)
\* ------------------------------------------------------------------------
\* lines 212-218 and 228-234: the has* flags a scan of directory d sets
VerifyNested(f, d) == Listed(f, d)

hasAnyFolder(fnd) ==
    \/ "mods/server" \in fnd \/ "mods/client" \in fnd
    \/ "archives/essentials" \in fnd \/ "archives/client" \in fnd

\* line 250
hasAllFolders(fnd) ==
    /\ "mods/server" \in fnd /\ "mods/client" \in fnd
    /\ "archives/essentials" \in fnd /\ "archives/client" \in fnd

\* line 206: scandir("./mod_warehouse")
VW_ScanRoot ==
    /\ pc = "vw_root"
    /\ IF ScandirError(fs, Warehouse) # "none"
       THEN Raise(ScandirError(fs, Warehouse)) /\ UNCHANGED <<found, pending,
                   projVars>>
       ELSE /\ pc' = "vw_nested"
            /\ pending' = Listed(fs, Warehouse)
            /\ found' = {}
            /\ UNCHANGED exc
    /\ UNCHANGED <<runs, cmpVars, syncVars, fs, fn, caller, result, mkIdx,
                   fs0, calls, envLog,
                   projVars>>

\* lines 211 and 227: scandir of a listed "mods" or "archives" entry
VW_ScanNested ==
    /\ pc = "vw_nested"
    /\ \E d \in pending :
          IF ScandirError(fs, d) # "none"
          THEN Raise(ScandirError(fs, d)) /\ UNCHANGED <<found, pending,
                   projVars>>
          ELSE /\ found' = found \cup VerifyNested(fs, d)
               /\ pending' = pending \ {d}
               /\ UNCHANGED <<pc, exc,
                   projVars>>
    /\ UNCHANGED <<runs, cmpVars, syncVars, fs, fn, caller, result, mkIdx,
                   fs0, calls, envLog,
                   projVars>>

\* lines 241-250
VW_Return ==
    /\ pc = "vw_nested"
    /\ pending = {}
    /\ result' = IF hasAllFolders(found) THEN "True" ELSE "False"
    /\ pc' = "returned"
    /\ UNCHANGED <<exc, runs, cmpVars, syncVars, fs, fn, caller, found,
                   pending, mkIdx, fs0, calls, envLog,
                   projVars>>

\* ------------------------------------------------------------------------
\* Project.repair_warehouse (lines 253-302)
\* ------------------------------------------------------------------------
RepairNestedNoClient(f, d) == Listed(f, d) \ {"mods/client"}

\* lines 264-270 and 277-283: what a scan of d appends to foundFolders
RepairNested(f, d) == Listed(f, d)

RepairOrderLeavesFirst ==
    <<"mods/server", "mods/client", "archives/essentials", "archives/client",
      "mods", "archives">>

\* lines 285-302: the order of the six creation attempts
RepairOrder ==
    <<"mods", "archives", "mods/server", "mods/client", "archives/essentials",
      "archives/client">>

\* line 257: scandir("./mod_warehouse"); lines 262 and 275 append the
\* listed names "mods" and "archives"
RW_ScanRoot ==
    /\ pc = "rw_root"
    /\ IF ScandirError(fs, Warehouse) # "none"
       THEN Raise(ScandirError(fs, Warehouse)) /\ UNCHANGED <<found, pending,
                   projVars>>
       ELSE /\ pc' = "rw_nested"
            /\ pending' = Listed(fs, Warehouse)
            /\ found' = Listed(fs, Warehouse)
            /\ UNCHANGED exc
    /\ UNCHANGED <<runs, cmpVars, syncVars, fs, fn, caller, result, mkIdx,
                   fs0, calls, envLog,
                   projVars>>

\* lines 263 and 276
RW_ScanNested ==
    /\ pc = "rw_nested"
    /\ \E d \in pending :
          IF ScandirError(fs, d) # "none"
          THEN Raise(ScandirError(fs, d)) /\ UNCHANGED <<found, pending,
                   projVars>>
          ELSE /\ found' = found \cup RepairNested(fs, d)
               /\ pending' = pending \ {d}
               /\ UNCHANGED <<pc, exc,
                   projVars>>
    /\ UNCHANGED <<runs, cmpVars, syncVars, fs, fn, caller, result, mkIdx,
                   fs0, calls, envLog,
                   projVars>>

\* the scan loop is over
RW_ScanDone ==
    /\ pc = "rw_nested"
    /\ pending = {}
    /\ pc' = "rw_mkdir"
    /\ mkIdx' = 1
    /\ UNCHANGED <<exc, runs, cmpVars, syncVars, fs, fn, caller, result,
                   found, pending, fs0, calls, envLog,
                   projVars>>

\* lines 285-302: one "if ... not in foundFolders: os.mkdir(...)"
RW_Mkdir ==
    /\ pc = "rw_mkdir"
    /\ mkIdx <= Len(RepairOrder)
    /\ LET p == RepairOrder[mkIdx]
           r == Mkdir(fs, p)
       IN IF p \in found
          THEN mkIdx' = mkIdx + 1 /\ UNCHANGED <<pc, exc, fs,
                   projVars>>
          ELSE IF r.err # "none"
          THEN Raise(r.err) /\ UNCHANGED <<fs, mkIdx,
                   projVars>>
          ELSE fs' = r.fs /\ mkIdx' = mkIdx + 1 /\ UNCHANGED <<pc, exc,
                   projVars>>
    /\ UNCHANGED <<runs, cmpVars, syncVars, fn, caller, result, found,
                   pending, fs0, calls, envLog,
                   projVars>>

RW_Return ==
    /\ pc = "rw_mkdir"
    /\ mkIdx > Len(RepairOrder)
    /\ result' = "None"
    /\ pc' = "returned"
    /\ UNCHANGED <<exc, runs, cmpVars, syncVars, fs, fn, caller, found,
                   pending, mkIdx, fs0, calls, envLog,
                   projVars>>

\* ------------------------------------------------------------------------
\* Project.create_warehouse (lines 177-196)
\* ------------------------------------------------------------------------
CreateOrderRepeated ==
    <<Warehouse, "mods/server", "mods/server", "archives/essentials",
      "archives/client">>

\* lines 185-189: os.mkdir of the root, then os.makedirs of the four leaves
CreateOrder ==
    <<Warehouse, "mods/server", "mods/client", "archives/essentials",
      "archives/client">>

CreateCall(f, i) ==
    IF i = 1 THEN Mkdir(f, CreateOrder[i]) ELSE Makedirs(f, CreateOrder[i])

\* one call of lines 185-189; FileExistsError is turned into exit(1)
\* (lines 191-195), any other error propagates
CW_Step ==
    /\ pc = "cw_mk"
    /\ mkIdx <= Len(CreateOrder)
    /\ LET r == CreateCall(fs, mkIdx)
       IN IF r.err = "FileExistsError"
          THEN Raise("SystemExit") /\ UNCHANGED <<fs, mkIdx,
                   projVars>>
          ELSE IF r.err # "none"
          THEN Raise(r.err) /\ UNCHANGED <<fs, mkIdx,
                   projVars>>
          ELSE fs' = r.fs /\ mkIdx' = mkIdx + 1 /\ UNCHANGED <<pc, exc,
                   projVars>>
    /\ UNCHANGED <<runs, cmpVars, syncVars, fn, caller, result, found,
                   pending, fs0, calls, envLog,
                   projVars>>

\* line 196
CW_Return ==
    /\ pc = "cw_mk"
    /\ mkIdx > Len(CreateOrder)
    /\ result' = "None"
    /\ pc' = "returned"
    /\ UNCHANGED <<exc, runs, cmpVars, syncVars, fs, fn, caller, found,
                   pending, mkIdx, fs0, calls, envLog,
                   projVars>>

\* ------------------------------------------------------------------------
\* Another process working in the same directory
\* ------------------------------------------------------------------------
\* positions between two system calls of the program
Interruptible ==
    {"vw_root", "vw_nested", "rw_root", "rw_nested", "rw_mkdir", "cw_mk"}

\* directories the running call has still to scan
Unscanned ==
    IF pc \in {"vw_root", "rw_root"} THEN {Warehouse} \cup TopDirs
    ELSE IF pc \in {"vw_nested", "rw_nested"} THEN pending
    ELSE {}

EnvEntry(op, p, k) ==
    [op |-> op, path |-> p, kind |-> k, at |-> pc, todo |-> Unscanned]

EnvCreate ==
    /\ pc \in Interruptible
    /\ Len(envLog) < MaxEnv
    /\ \E p \in Paths, k \in {"dir", "file"} :
          /\ fs[p] = "absent"
          /\ p # Warehouse => fs[Parent(p)] = "dir"
          /\ fs' = [fs EXCEPT ![p] = k]
          /\ envLog' = Append(envLog, EnvEntry("create", p, k))
    /\ UNCHANGED <<pc, exc, runs, cmpVars, syncVars, fn, caller, result,
                   found, pending, mkIdx, fs0, calls,
                   projVars>>

EnvRemove ==
    /\ pc \in Interruptible
    /\ Len(envLog) < MaxEnv
    /\ \E p \in Paths :
          /\ fs[p] # "absent"
          /\ fs' = RemoveTree(fs, p)
          /\ envLog' = Append(envLog, EnvEntry("remove", p, fs[p]))
    /\ UNCHANGED <<pc, exc, runs, cmpVars, syncVars, fn, caller, result,
                   found, pending, mkIdx, fs0, calls,
                   projVars>>

\* ------------------------------------------------------------------------
\* SpecWarehouse: the three warehouse functions called directly
\* ------------------------------------------------------------------------
InitWarehouse ==
    /\ pc = "wh_driver"
    /\ exc = "none"
    /\ runs = 0
    /\ DriverIdle
    /\ SyncIdle
    /\ fs \in Trees
    /\ fs0 = fs
    /\ NoWarehouseCall
    /\ calls = <<>>
    /\ envLog = <<>>
    /\ ProjIdle

EntryOf(f) ==
    IF f = "verify_warehouse" THEN "vw_root"
    ELSE IF f = "repair_warehouse" THEN "rw_root"
    ELSE "cw_mk"

WhCall ==
    /\ pc = "wh_driver"
    /\ Len(calls) < MaxWhCalls
    /\ \E f \in {"verify_warehouse", "repair_warehouse", "create_warehouse"} :
          /\ fn' = f
          /\ pc' = EntryOf(f)
    /\ caller' = "driver"
    /\ fs0' = fs
    /\ found' = {} /\ pending' = {} /\ mkIdx' = 1
    /\ result' = "none"
    /\ UNCHANGED <<exc, runs, cmpVars, syncVars, fs, calls, envLog,
                   projVars>>

WhReturn ==
    /\ pc \in {"returned", "raised"}
    /\ caller = "driver"
    /\ calls' = Append(calls, [fn |-> fn,
                               result |-> IF pc = "raised" THEN exc ELSE result,
                               before |-> fs0,
                               after |-> fs])
    /\ pc' = "wh_driver"
    /\ exc' = "none"
    /\ fn' = "none" /\ caller' = "none" /\ result' = "none"
    /\ found' = {} /\ pending' = {} /\ mkIdx' = 0
    /\ UNCHANGED <<runs, cmpVars, syncVars, fs, fs0, envLog,
                   projVars>>

NextWarehouse ==
    \/ WhCall
    \/ VW_ScanRoot
    \/ VW_ScanNested
    \/ VW_Return
    \/ RW_ScanRoot
    \/ RW_ScanNested
    \/ RW_ScanDone
    \/ RW_Mkdir
    \/ RW_Return
    \/ CW_Step
    \/ CW_Return
    \/ WhReturn

SpecWarehouse == InitWarehouse /\ [][NextWarehouse]_vars

\* ------------------------------------------------------------------------
\* SpecRace: one call of a warehouse function while another process
\* creates or removes entries of the tree
\* ------------------------------------------------------------------------
WhCallOnce == calls = <<>> /\ WhCall

NextRace ==
    \/ WhCallOnce
    \/ VW_ScanRoot
    \/ VW_ScanNested
    \/ VW_Return
    \/ RW_ScanRoot
    \/ RW_ScanNested
    \/ RW_ScanDone
    \/ RW_Mkdir
    \/ RW_Return
    \/ CW_Step
    \/ CW_Return
    \/ EnvCreate
    \/ EnvRemove
    \/ WhReturn

SpecRace == InitWarehouse /\ [][NextRace]_vars

\* ------------------------------------------------------------------------
\* Project.__init__, verify_project and run_tasks (lines 110-175, 356-358)
\* ------------------------------------------------------------------------
ConfigName == "distribution-config.toml"

\* names scandir() lists in the working directory (line 140)
CwdNames ==
    (IF config.exists THEN {ConfigName} ELSE {})
        \cup (IF fs[Warehouse] # "absent" THEN {Warehouse} ELSE {})

\* line 140, after lines 137-139
VP_Scan ==
    /\ pc = "start"
    /\ entries' \in Listings(CwdNames)
    /\ hasConfig' = FALSE /\ hasWarehouse' = FALSE /\ isFine' = TRUE
    /\ pc' = "vp_loop"
    /\ UNCHANGED <<exc, runs, cmpVars, syncVars, whVars, config, repairs,
                   start, exitCode>>

\* lines 144-153: the config entry is verified and, if damaged, rewritten
VP_Config ==
    /\ pc = "vp_loop"
    /\ entries # <<>> /\ Head(entries) = ConfigName
    /\ hasConfig' = TRUE
    /\ entries' = Tail(entries)
    /\ IF ~config.exists
       THEN Raise("FileNotFoundError") /\ UNCHANGED <<isFine, config, repairs>>
       ELSE IF verify_config_file(config.lines)
       THEN UNCHANGED <<pc, exc, isFine, config, repairs>>
       ELSE /\ isFine' = FALSE
            /\ config' = create_config
            /\ repairs' = repairs \cup {"config"}
            /\ UNCHANGED <<pc, exc>>
    /\ UNCHANGED <<runs, cmpVars, syncVars, whVars, hasWarehouse, start,
                   exitCode>>

\* lines 155-158: the warehouse entry; verify_warehouse is called
VP_Warehouse ==
    /\ pc = "vp_loop"
    /\ entries # <<>> /\ Head(entries) = Warehouse
    /\ hasWarehouse' = TRUE
    /\ entries' = Tail(entries)
    /\ fn' = "verify_warehouse" /\ caller' = "verify_project"
    /\ pc' = "vw_root"
    /\ fs0' = fs
    /\ found' = {} /\ pending' = {} /\ mkIdx' = 1 /\ result' = "none"
    /\ UNCHANGED <<exc, runs, cmpVars, syncVars, fs, calls, envLog, config,
                   hasConfig, isFine, repairs, start, exitCode>>

\* lines 158-161: a damaged warehouse is repaired
VP_AfterVerify ==
    /\ pc = "returned"
    /\ caller = "verify_project" /\ fn = "verify_warehouse"
    /\ IF result = "False"
       THEN /\ isFine' = FALSE
            /\ fn' = "repair_warehouse"
            /\ pc' = "rw_root"
            /\ found' = {} /\ pending' = {} /\ mkIdx' = 1
            /\ result' = "none"
            /\ UNCHANGED caller
       ELSE /\ pc' = "vp_loop"
            /\ fn' = "none" /\ caller' = "none"
            /\ UNCHANGED <<isFine, found, pending, mkIdx, result>>
    /\ UNCHANGED <<exc, runs, cmpVars, syncVars, fs, fs0, calls, envLog,
                   config, entries, hasConfig, hasWarehouse, repairs, start,
                   exitCode>>

\* line 161 has returned
VP_AfterRepair ==
    /\ pc = "returned"
    /\ caller = "verify_project" /\ fn = "repair_warehouse"
    /\ repairs' = repairs \cup {"warehouse"}
    /\ pc' = "vp_loop"
    /\ fn' = "none" /\ caller' = "none"
    /\ UNCHANGED <<exc, runs, cmpVars, syncVars, fs, result, found, pending,
                   mkIdx, fs0, calls, envLog, config, entries, hasConfig,
                   hasWarehouse, isFine, start, exitCode>>

\* lines 163-167: no config entry was listed
VP_NoConfig ==
    /\ pc = "vp_loop"
    /\ entries = <<>>
    /\ IF hasConfig = FALSE
       THEN /\ isFine' = FALSE
            /\ config' = create_config
            /\ repairs' = repairs \cup {"config"}
       ELSE UNCHANGED <<isFine, config, repairs>>
    /\ pc' = "vp_warehouse"
    /\ UNCHANGED <<exc, runs, cmpVars, syncVars, whVars, entries, hasConfig,
                   hasWarehouse, start, exitCode>>

\* lines 169-173: no warehouse entry was listed
VP_NoWarehouse ==
    /\ pc = "vp_warehouse"
    /\ IF hasWarehouse = FALSE
       THEN /\ isFine' = FALSE
            /\ fn' = "create_warehouse" /\ caller' = "verify_project"
            /\ pc' = "cw_mk"
            /\ fs0' = fs
            /\ found' = {} /\ pending' = {} /\ mkIdx' = 1
            /\ result' = "none"
       ELSE /\ pc' = "vp_return"
            /\ UNCHANGED <<isFine, fn, caller, fs0, found, pending, mkIdx,
                           result>>
    /\ UNCHANGED <<exc, runs, cmpVars, syncVars, fs, calls, envLog, config,
                   entries, hasConfig, hasWarehouse, repairs, start, exitCode>>

\* line 172 has returned
VP_AfterCreate ==
    /\ pc = "returned"
    /\ caller = "verify_project" /\ fn = "create_warehouse"
    /\ repairs' = repairs \cup {"warehouse"}
    /\ pc' = "vp_return"
    /\ fn' = "none" /\ caller' = "none"
    /\ UNCHANGED <<exc, runs, cmpVars, syncVars, fs, result, found, pending,
                   mkIdx, fs0, calls, envLog, config, entries, hasConfig,
                   hasWarehouse, isFine, start, exitCode>>

NeverExit(fine) == FALSE

\* line 112
ShouldExit(fine) == fine = FALSE

\* lines 112-117: verify_project has returned isFine
Init_Check ==
    /\ pc = "vp_return"
    /\ IF ShouldExit(isFine)
       THEN pc' = "exited" /\ exitCode' = 1
       ELSE pc' = "load_config" /\ UNCHANGED exitCode
    /\ UNCHANGED <<exc, runs, cmpVars, syncVars, whVars, config, entries,
                   hasConfig, hasWarehouse, isFine, repairs, start>>

\* lines 119-124: the error raised while the FTP settings are read
LoadError(c) ==
    IF ~c.exists THEN "FileNotFoundError"
    ELSE IF load(c.lines).err THEN "TomlDecodeError"
    ELSE IF "FTP" \notin load(c.lines).tables THEN "KeyError"
    ELSE IF \E k \in FtpKeys : k \notin FtpTable(load(c.lines)) THEN "KeyError"
    ELSE "none"

Init_Load ==
    /\ pc = "load_config"
    /\ IF LoadError(config) # "none"
       THEN Raise(LoadError(config))
       ELSE pc' = "archive" /\ UNCHANGED exc
    /\ UNCHANGED <<runs, cmpVars, syncVars, whVars, projVars>>

\* ArchiveTask.run, lines 37-52: each mods folder is listed and, when it
\* holds something, a zip is opened for writing in its archives folder
ArchiveError(f, serverHasMods, clientHasMods) ==
    IF ScandirError(f, "mods/server") # "none"
    THEN ScandirError(f, "mods/server")
    ELSE IF serverHasMods /\ ScandirError(f, "archives/essentials") # "none"
    THEN ScandirError(f, "archives/essentials")
    ELSE IF ScandirError(f, "mods/client") # "none"
    THEN ScandirError(f, "mods/client")
    ELSE IF clientHasMods /\ ScandirError(f, "archives/client") # "none"
    THEN ScandirError(f, "archives/client")
    ELSE "none"

\* lines 126-129
RunArchive ==
    /\ pc = "archive"
    /\ \E clientHasMods \in BOOLEAN :
          LET e == ArchiveError(fs, localDir # {}, clientHasMods)
          IN IF e # "none"
             THEN Raise(e)
             ELSE pc' = "run_connect" /\ UNCHANGED exc
    /\ UNCHANGED <<runs, cmpVars, syncVars, whVars, projVars>>

\* an exception nobody catches ends the process with status 1
ProcessCrash ==
    /\ pc \in {"raised", "sync_failed"}
    /\ pc' = "exited"
    /\ exitCode' = 1
    /\ UNCHANGED <<exc, runs, cmpVars, syncVars, whVars, config, entries,
                   hasConfig, hasWarehouse, isFine, repairs, start>>

\* line 358 has returned
ProcessEnd ==
    /\ pc = "synced"
    /\ pc' = "exited"
    /\ exitCode' = 0
    /\ UNCHANGED <<exc, runs, cmpVars, syncVars, whVars, config, entries,
                   hasConfig, hasWarehouse, isFine, repairs, start>>

\* between two runs the operator fills in the config (line 167)
UserConfigures ==
    /\ pc = "exited"
    /\ runs < MaxRuns
    /\ config.lines # CompleteConfig
    /\ config' = [exists |-> TRUE, lines |-> CompleteConfig]
    /\ UNCHANGED <<pc, exc, runs, cmpVars, syncVars, whVars, entries,
                   hasConfig, hasWarehouse, isFine, repairs, start, exitCode>>

\* the program is started again
Rerun ==
    /\ pc = "exited"
    /\ runs < MaxRuns
    /\ runs' = runs + 1
    /\ pc' = "start"
    /\ exc' = "none"
    /\ exitCode' = -1
    /\ entries' = <<>>
    /\ hasConfig' = FALSE /\ hasWarehouse' = FALSE /\ isFine' = TRUE
    /\ repairs' = {}
    /\ start' = [fs |-> fs, config |-> config]
    /\ fn' = "none" /\ caller' = "none" /\ result' = "none"
    /\ found' = {} /\ pending' = {} /\ mkIdx' = 0
    /\ fs0' = fs
    /\ to_upload' = <<>> /\ to_delete' = <<>> /\ oplog' = <<>>
    /\ remoteDir0' = {}
    /\ lastRun' = RunRecord
    /\ UNCHANGED <<cmpVars, localDir, remoteDir, fs, calls, envLog, config>>

Init ==
    /\ pc = "start"
    /\ exc = "none"
    /\ runs = 1
    /\ DriverIdle
    /\ fs \in Trees
    /\ fs0 = fs
    /\ NoWarehouseCall
    /\ calls = <<>>
    /\ envLog = <<>>
    /\ config \in ConfigStates
    /\ start = [fs |-> fs, config |-> config]
    /\ NoProjectRun
    /\ localDir \in (IF fs["mods/server"] = "dir" THEN SUBSET Names ELSE {{}})
    /\ remoteDir \in SUBSET Names
    /\ remoteDir0 = {}
    /\ lastRun = NoLastRun
    /\ to_upload = <<>> /\ to_delete = <<>> /\ oplog = <<>>

Next ==
    \/ VP_Scan
    \/ VP_Config
    \/ VP_Warehouse
    \/ VW_ScanRoot
    \/ VW_ScanNested
    \/ VW_Return
    \/ VP_AfterVerify
    \/ RW_ScanRoot
    \/ RW_ScanNested
    \/ RW_ScanDone
    \/ RW_Mkdir
    \/ RW_Return
    \/ VP_AfterRepair
    \/ VP_NoConfig
    \/ VP_NoWarehouse
    \/ CW_Step
    \/ CW_Return
    \/ VP_AfterCreate
    \/ Init_Check
    \/ Init_Load
    \/ RunArchive
    \/ SyncConnect
    \/ SyncCompare
    \/ SyncRemove
    \/ SyncPut
    \/ SyncClose
    \/ TransportFailure
    \/ ProcessCrash
    \/ ProcessEnd
    \/ UserConfigures
    \/ Rerun

Spec == Init /\ [][Next]_vars

\* ------------------------------------------------------------------------
\* Properties
\* ------------------------------------------------------------------------

\* C1: every plan returned by mod_comparison(L, R) has, as sets,
\* to_upload = L - R and to_delete = R - L, and the two are disjoint.
C1_PlanIsSetDifference ==
    \A i \in 1..Len(plans) :
        LET L == Range(plans[i].local_in)
            R == Range(plans[i].server_in)
        IN /\ Range(plans[i].to_upload) = L \ R
           /\ Range(plans[i].to_delete) = R \ L
           /\ Range(plans[i].to_upload) \cap Range(plans[i].to_delete) = {}

\* a call whose two lists overlap and each hold a name the other lacks
C1_Witness ==
    \E i \in 1..Len(plans) :
        LET L == Range(plans[i].local_in)
            R == Range(plans[i].server_in)
        IN L \cap R # {} /\ L \ R # {} /\ R \ L # {}

PutsOf(log) == {log[i].mod : i \in {j \in 1..Len(log) : log[j].op = "put"}}
RemovesOf(log) == {log[i].mod : i \in {j \in 1..Len(log) : log[j].op = "remove"}}

\* C2: when a run has applied its whole plan, the remote set is
\* (R + uploads) - deletions, equals the local set, and a fresh comparison
\* of the two gives an empty plan.
C2_Convergence ==
    pc = "synced" =>
        /\ remoteDir = (remoteDir0 \cup PutsOf(oplog)) \ RemovesOf(oplog)
        /\ remoteDir = localDir
        /\ \A loc \in Listings(localDir), srv \in Listings(remoteDir) :
              /\ mod_comparison(loc, srv).to_upload = <<>>
              /\ mod_comparison(loc, srv).to_delete = <<>>

\* a finished run that both removed and uploaded
C2_Witness ==
    /\ pc = "synced"
    /\ PutsOf(oplog) # {} /\ RemovesOf(oplog) # {}
    /\ remoteDir0 # localDir

\* C3: within one run no server.remove follows a server.put.
C3_RemoveBeforePut ==
    \A i \in 1..Len(oplog) : \A j \in 1..Len(oplog) :
        (i < j /\ oplog[i].op = "put") => oplog[j].op # "remove"

\* a run that issued a removal and then an upload
C3_Witness ==
    \E i \in 1..Len(oplog) : \E j \in 1..Len(oplog) :
        i < j /\ oplog[i].op = "remove" /\ oplog[j].op = "put"

\* C7 (as claimed): two successive calls with the same two list objects
\* return the same plan, and the first call leaves the remote list as it was.
C7_PureFunction ==
    Len(plans) = 2 =>
        /\ plans[2].server_in = plans[1].server_in
        /\ Range(plans[2].to_upload) = Range(plans[1].to_upload)
        /\ Range(plans[2].to_delete) = Range(plans[1].to_delete)

\* the warehouse exists and neither mods nor archives is a regular file
ExistingWarehouse(f) ==
    /\ f[Warehouse] = "dir"
    /\ \A d \in TopDirs : f[d] # "file"

\* C4: on every state of an existing warehouse, verify_warehouse then
\* repair_warehouse then verify_warehouse: the repair raises nothing and
\* the second verification returns True.
C4_VerifyRepairVerify ==
    \A i \in 1..Len(calls) :
        (/\ i + 2 <= Len(calls)
         /\ calls[i].fn = "verify_warehouse"
         /\ calls[i + 1].fn = "repair_warehouse"
         /\ calls[i + 2].fn = "verify_warehouse"
         /\ ExistingWarehouse(calls[i].before))
        => /\ calls[i + 1].result = "None"
           /\ calls[i + 2].result = "True"

\* verify (finds mods and a leaf of archives missing), repair, verify
C4_Witness ==
    /\ Len(calls) = 3
    /\ calls[1].fn = "verify_warehouse" /\ calls[1].result = "False"
    /\ calls[1].before["mods"] = "absent"
    /\ calls[1].before["archives"] = "dir"
    /\ calls[1].before["archives/client"] = "absent"
    /\ calls[2].fn = "repair_warehouse"
    /\ calls[3].fn = "verify_warehouse" /\ calls[3].result = "True"

RacedCreation(c) ==
    /\ envLog # <<>>
    /\ \A k \in 1..Len(envLog) :
          /\ envLog[k].op = "create" /\ envLog[k].kind = "dir"
          /\ c.before[envLog[k].path] = "absent"
          /\ c.fn = "repair_warehouse" => envLog[k].at = "rw_mkdir"
    /\ c.fn = "repair_warehouse" => ExistingWarehouse(c.before)
    /\ c.fn = "create_warehouse" => c.before[Warehouse] = "absent"

\* C5 (as claimed): when another process creates a directory that the scan
\* found missing before the program creates it, repair_warehouse and
\* create_warehouse still return normally.
C5_ConcurrentCreationIsSuccess ==
    \A i \in 1..Len(calls) :
        (calls[i].fn \in {"repair_warehouse", "create_warehouse"}
            /\ RacedCreation(calls[i]))
        => calls[i].result = "None"

\* a directory verify_warehouse has to scan does not exist: it is absent
\* when the call starts, or another process removes it before its scan
MissingScanRoot(c) ==
    /\ \A p \in Paths : c.before[p] # "file"
    /\ \/ envLog = <<>> /\ \E d \in {Warehouse} \cup TopDirs : c.before[d] = "absent"
       \/ /\ Len(envLog) = 1
          /\ envLog[1].op = "remove"
          /\ envLog[1].path \in envLog[1].todo

\* C10 (as claimed): when a directory to be scanned does not exist,
\* verify_warehouse returns False and raises nothing.
C10_MissingRootTolerated ==
    \A i \in 1..Len(calls) :
        (calls[i].fn = "verify_warehouse" /\ MissingScanRoot(calls[i]))
        => calls[i].result = "False"

\* positions of run_tasks: archiving, then the server sync
TaskPositions ==
    {"archive", "run_connect", "run_compare", "run_apply", "synced",
     "sync_failed"}

\* something for verification to find: the config is missing or does not
\* verify, or a warehouse directory is missing
Damaged(st) ==
    \/ ~st.config.exists
    \/ ~verify_config_file(st.config.lines)
    \/ \E p \in LeafDirs : st.fs[p] = "absent"

C9_RegeneratedConfigVerifies ==
    (/\ start.config.exists
     /\ load(start.config.lines).err
     /\ "config" \in repairs)
    => (config.exists /\ verify_config_file(config.lines))

\* C11: repair_warehouse and create_warehouse, however they end, leave
\* every entry that existed (named by the schema or not) as it was, and
\* what they add are directories at schema paths only.
C11_RepairOnlyAdds ==
    \A i \in 1..Len(calls) :
        calls[i].fn \in {"repair_warehouse", "create_warehouse"}
        => \A p \in Paths :
              /\ calls[i].before[p] # "absent"
                    => calls[i].after[p] = calls[i].before[p]
              /\ calls[i].after[p] # calls[i].before[p]
                    => (p \in SchemaPaths /\ calls[i].after[p] = "dir")

\* a repair that created directories next to an unexpected entry and a
\* regular file carrying a schema name
C11_Witness ==
    \E i \in 1..Len(calls) :
        /\ calls[i].fn = "repair_warehouse"
        /\ calls[i].result = "None"
        /\ calls[i].before["mods/other"] # "absent"
        /\ calls[i].before["mods/server"] = "file"
        /\ calls[i].before["mods/client"] = "absent"
        /\ calls[i].after["mods/client"] = "dir"
        /\ calls[i].before["archives"] = "absent"

\* C12 (as claimed): verify_warehouse counts a schema directory as present
\* only when a directory is there; with a regular file of that name in its
\* place the directory is reported missing and the result is False.
C12_KindChecked ==
    \A i \in 1..Len(calls) :
        (/\ calls[i].fn = "verify_warehouse"
         /\ ExistingWarehouse(calls[i].before)
         /\ \E p \in LeafDirs : calls[i].before[p] = "file")
        => calls[i].result = "False"

\* C13: a transport failure leaves the actions already applied in place,
\* the plan of the next run is exactly what the failed run had not yet
\* applied, and once that run completes the remote set equals the local.
C13_RerunIssuesRemaining ==
    /\ (pc = "sync_failed" /\ oplog # <<>>)
          => remoteDir = (remoteDir0 \cup PutsOf(oplog)) \ RemovesOf(oplog)
    /\ (lastRun.planned /\ pc = "run_apply" /\ oplog = <<>>)
          => /\ Range(to_upload) = lastRun.left_up
             /\ Range(to_delete) = lastRun.left_del
    /\ (lastRun.planned /\ pc = "synced") => remoteDir = localDir

\* a run that failed part way through its plan, followed by a run that
\* uploaded what was left and completed
C13_Witness ==
    /\ lastRun.planned
    /\ lastRun.applied > 0
    /\ lastRun.left_up # {}
    /\ pc = "synced"
    /\ PutsOf(oplog) = lastRun.left_up

\* no regular file sits where the schema has a directory
NoFiles(f) == \A p \in SchemaPaths : f[p] # "file"

\* positions reached once verify_project has returned
AfterVerifyProject == {"vp_return", "load_config", "exited"} \cup TaskPositions

C15_AlreadyExistsUnreachable ==
    /\ exc # "SystemExit"
    /\ fn = "create_warehouse" => (hasWarehouse = FALSE /\ fs0[Warehouse] = "absent")

\* create_warehouse was called and has returned
C15_Witness ==
    /\ pc = "returned"
    /\ fn = "create_warehouse"
    /\ start.fs[Warehouse] = "absent"
    /\ \A p \in SchemaPaths : fs[p] = "dir"

\* C16 (as claimed): once verify_project has returned True, the config
\* load finds every FTP key and the four directories the tasks work on
\* exist; run_tasks is not reached after verify_project returned False.
C16_TasksGated ==
    pc \in ({"load_config"} \cup TaskPositions) =>
        /\ isFine
        /\ LoadError(config) = "none"
        /\ \A p \in LeafDirs : fs[p] = "dir"

====
